---- MODULE Spec2Model ----
(***************************************************************************)
(* Model of src/app.py, the Streamlit script "Master Data Cleaner &        *)
(* Insight Generator".  The script is re-run from its first line on every  *)
(* user interaction; what survives a re-run is the uploaded file and the   *)
(* values of the widgets, everything else (the "global holders" of lines   *)
(* 20-24) is assigned afresh.  One action of the model is one interaction: *)
(* a widget changes and the whole script runs.                             *)
(*                                                                         *)
(* Text is modelled as a sequence of one-character strings, so that        *)
(* str.split and str.strip are computed and not assumed.  An optional      *)
(* value (Python's None) is a sequence of length 0 or 1.                   *)
(***************************************************************************)
EXTENDS Integers, Sequences, FiniteSets, TLC

(***************************************************************************)
(* Bounds of the model.                                                    *)
(***************************************************************************)
\* most rows of a table in an uploaded file (session specification)
MaxRows == 3
\* most rows of a table in an uploaded file (cleaning specification)
MaxPipeRows == 5

(***************************************************************************)
(* Generic helpers on sequences.                                           *)
(***************************************************************************)
\* the subsequence of s at the positions that satisfy Keep
SelectIdx(s, Keep(_)) ==
  LET F[i \in 0..Len(s)] ==
        IF i = 0 THEN <<>>
        ELSE IF Keep(i) THEN Append(F[i - 1], s[i]) ELSE F[i - 1]
  IN F[Len(s)]

SeqsUpTo(S, n) == UNION {[1..k -> S] : k \in 0..n}

Some(x) == <<x>>
None == <<>>

(***************************************************************************)
(* Text: Python str as a sequence of characters.                           *)
(***************************************************************************)
\* the characters str.strip() removes: those of str.isspace().  The spaces
\* from U+2000 on (U+2000..U+200A, U+2028, U+2029, U+202F, U+205F, U+3000)
\* cannot be written in a string of this language and are not characters of
\* the model's texts.
Whitespace ==
  {" ", "\t", "\n", "\r", "\f", "", "", "", "", "",
   "", " ", " "}

IsSpace(c) == c \in Whitespace

\* str.strip(): drop the leading and the trailing whitespace
RECURSIVE LStrip(_)
LStrip(s) == IF s # <<>> /\ IsSpace(Head(s)) THEN LStrip(Tail(s)) ELSE s

RECURSIVE RStrip(_)
RStrip(s) ==
  IF s # <<>> /\ IsSpace(s[Len(s)]) THEN RStrip(SubSeq(s, 1, Len(s) - 1)) ELSE s

Strip(s) == RStrip(LStrip(s))

\* str.split(sep) with a one-character separator: always at least one field,
\* empty fields are kept
Split(s, sep) ==
  LET F[i \in 0..Len(s)] ==
        IF i = 0 THEN <<  <<>>  >>
        ELSE LET prev == F[i - 1]
                 n == Len(prev)
             IN IF s[i] = sep THEN Append(prev, <<>>)
                ELSE [prev EXCEPT ![n] = Append(prev[n], s[i])]
  IN F[Len(s)]

(***************************************************************************)
(* Tables: pandas DataFrame as column names plus rows of cells.            *)
(***************************************************************************)
NaN == "NaN"
FillValue == "N/A"

EmptyDataFrame == [columns |-> <<>>, rows |-> <<>>]

Shape(t) == <<Len(t.rows), Len(t.columns)>>

HasNull(row) == \E j \in 1..Len(row) : row[j] = NaN

\* DataFrame.dropna(): keep the rows without a missing cell
DropNa(t) ==
  [t EXCEPT !.rows = SelectIdx(t.rows, LAMBDA i : ~HasNull(t.rows[i]))]

\* DataFrame.fillna(value): every missing cell becomes value
FillNa(t, value) ==
  [t EXCEPT !.rows =
     [i \in 1..Len(t.rows) |->
        [j \in 1..Len(t.rows[i]) |->
           IF t.rows[i][j] = NaN THEN value ELSE t.rows[i][j]]]]

\* DataFrame.duplicated(): row i repeats an earlier row (NaN equals NaN)
Duplicated(t, i) == \E k \in 1..(i - 1) : t.rows[k] = t.rows[i]

\* variant: drop_duplicates(keep = False), every copy of a repeated row goes
DropDuplicatesKeepNone(t) ==
  [t EXCEPT !.rows =
     SelectIdx(t.rows,
               LAMBDA i : ~\E k \in 1..Len(t.rows) : k # i /\ t.rows[k] = t.rows[i])]

\* DataFrame.drop_duplicates(): keep the first occurrence of every row
DropDuplicates(t) ==
  [t EXCEPT !.rows = SelectIdx(t.rows, LAMBDA i : ~Duplicated(t, i))]

\* DataFrame.duplicated().sum()
DuplicatedSum(t) == Cardinality({i \in 1..Len(t.rows) : Duplicated(t, i)})

\* DataFrame.isnull().sum(): one entry per column, in column order
IsNullSum(t) ==
  [j \in 1..Len(t.columns) |->
     [column |-> t.columns[j],
      count |-> Cardinality({i \in 1..Len(t.rows) : t.rows[i][j] = NaN})]]

\* variant: a key that names no column makes the rename do nothing
RenameAllOrNothing(t, mappings) ==
  IF \A k \in DOMAIN mappings : \E j \in 1..Len(t.columns) : t.columns[j] = k
    THEN [t EXCEPT !.columns =
            [j \in 1..Len(t.columns) |->
               IF t.columns[j] \in DOMAIN mappings THEN mappings[t.columns[j]]
               ELSE t.columns[j]]]
    ELSE t

\* DataFrame.rename(columns = mappings): a column whose name is a key gets the
\* key's value, any other column keeps its name, keys naming no column are
\* ignored
Rename(t, mappings) ==
  [t EXCEPT !.columns =
     [j \in 1..Len(t.columns) |->
        IF t.columns[j] \in DOMAIN mappings THEN mappings[t.columns[j]]
        ELSE t.columns[j]]]

\* DataFrame.to_csv(index = False): header line, then the rows, a missing
\* cell written as the empty field
ToCsv(t) ==
  [header |-> t.columns,
   lines |-> [i \in 1..Len(t.rows) |->
                [j \in 1..Len(t.rows[i]) |->
                   IF t.rows[i][j] = NaN THEN "" ELSE t.rows[i][j]]]]

(***************************************************************************)
(* Uploaded files.  A file has an extension, a kind of content and the     *)
(* table its content holds.  Kinds of content: "utf8" is delimited text    *)
(* that decodes as UTF-8, "latin1" is delimited text with a byte that is   *)
(* not valid UTF-8 (it decodes as ISO-8859-1), "excel" is a workbook,      *)
(* "empty" holds nothing to parse.  Every file of the model is shorter     *)
(* than one read chunk, so a read that starts consumes the whole stream.   *)
(***************************************************************************)
ColumnNames == << <<"a">>, <<"b">> >>

Cells == {NaN, "x"}

\* session specification: a first column with a value or missing, a second
\* column that is always present
Rows == {<<c, "x">> : c \in Cells}

Tables ==
  {[columns |-> ColumnNames, rows |-> r] : r \in SeqsUpTo(Rows, MaxRows)}

\* cleaning specification: a first column with three values or missing, a
\* second column that is always present
PipeRows == {<<c, "x">> : c \in {NaN, "x", "y", "z"}}

PipeTables ==
  {[columns |-> ColumnNames, rows |-> r] : r \in SeqsUpTo(PipeRows, MaxPipeRows)}

MkFile(ext, content, t) == [ext |-> ext, content |-> content, table |-> t]

\* the tables of the files that are not UTF-8 delimited text
ShortTables == {t \in Tables : Len(t.rows) <= 1}

Files ==
  {MkFile(".csv", "utf8", t) : t \in Tables}
    \cup {MkFile(".csv", "latin1", t) : t \in ShortTables}
    \cup {MkFile(".xlsx", "excel", t) : t \in ShortTables}
    \cup {MkFile(".csv", "empty", EmptyDataFrame),
          MkFile(".xlsx", "empty", EmptyDataFrame),
          MkFile(".CSV", "utf8", [columns |-> ColumnNames, rows |-> <<>>])}

PipeFiles == {MkFile(".csv", "utf8", t) : t \in PipeTables}

(***************************************************************************)
(* Dataset loader, lines 28-36.                                            *)
(***************************************************************************)
\* pd.read_csv(stream, encoding) on a stream of which `consumed` tells whether
\* an earlier read has already taken its bytes: the outcome and the stream
\* afterwards.  Nothing rewinds the stream.
ReadCsv(f, consumed, encoding) ==
  IF consumed \/ f.content = "empty"
    THEN [status |-> "EmptyDataError", table |-> EmptyDataFrame, consumed |-> TRUE]
  ELSE IF f.content = "utf8" \/ encoding = "ISO-8859-1"
    THEN [status |-> "ok", table |-> f.table, consumed |-> TRUE]
  ELSE [status |-> "UnicodeDecodeError", table |-> EmptyDataFrame, consumed |-> TRUE]

\* pd.read_excel(stream)
ReadExcel(f) ==
  IF f.content = "excel"
    THEN [status |-> "ok", table |-> f.table]
    ELSE [status |-> "ValueError", table |-> EmptyDataFrame]

\* lines 28-36: the table, or the exception that leaves the try block, and
\* the parse attempts made
LoadFile(f) ==
  IF f.ext = ".csv"
    THEN LET first == ReadCsv(f, FALSE, "utf-8")
         IN IF first.status = "UnicodeDecodeError"
              THEN LET second == ReadCsv(f, first.consumed, "ISO-8859-1")
                   IN [ok |-> second.status = "ok", df |-> second.table,
                       error |-> second.status,
                       attempts |-> <<"utf-8", "ISO-8859-1">>]
              ELSE [ok |-> first.status = "ok", df |-> first.table,
                    error |-> first.status, attempts |-> <<"utf-8">>]
    ELSE LET x == ReadExcel(f)
         IN [ok |-> x.status = "ok", df |-> x.table, error |-> x.status,
             attempts |-> <<"excel">>]

(***************************************************************************)
(* Quality profiler, lines 52-67.                                          *)
(***************************************************************************)
\* line 63: the columns without a single non-missing cell
EmptyCols(t) ==
  SelectIdx(t.columns, LAMBDA j : \A i \in 1..Len(t.rows) : t.rows[i][j] = NaN)

(***************************************************************************)
(* Cleaning pipeline, lines 113-132.                                       *)
(***************************************************************************)
\* variant: a pair without a colon is left out, the other pairs are kept
ParseMappingsSkipBad(text) ==
  LET all == Split(text, ",")
      pairs == SelectIdx(all, LAMBDA i : Len(Split(all[i], ":")) >= 2)
      parts(i) == Split(pairs[i], ":")
      key(i) == Strip(parts(i)[1])
      keys == {key(i) : i \in 1..Len(pairs)}
      last(k) == CHOOSE i \in 1..Len(pairs) :
                   /\ key(i) = k
                   /\ \A m \in 1..Len(pairs) : key(m) = k => m <= i
  IN [ok |-> TRUE, mappings |-> [k \in keys |-> Strip(parts(last(k))[2])]]

\* lines 126-129: the dict comprehension.  pair.split(":")[1] raises
\* IndexError for a pair without a colon, which abandons the whole dict; a
\* later pair with the same key replaces the earlier one.
ParseMappings(text) ==
  LET pairs == Split(text, ",")
      parts(i) == Split(pairs[i], ":")
      key(i) == Strip(parts(i)[1])
      keys == {key(i) : i \in 1..Len(pairs)}
      last(k) == CHOOSE i \in 1..Len(pairs) :
                   /\ key(i) = k
                   /\ \A m \in 1..Len(pairs) : key(m) = k => m <= i
  IN IF \E i \in 1..Len(pairs) : Len(parts(i)) < 2
       THEN [ok |-> FALSE, mappings |-> << >>]
       ELSE [ok |-> TRUE, mappings |-> [k \in keys |-> Strip(parts(last(k))[2])]]

\* lines 124-132: the rename step on the table cleaned so far
RenameStep(t, text) ==
  IF text = <<>> THEN [table |-> t, warned |-> FALSE]
  ELSE LET p == ParseMappings(text)
       IN IF p.ok THEN [table |-> Rename(t, p.mappings), warned |-> FALSE]
          ELSE [table |-> t, warned |-> TRUE]

\* variant: the placeholder is filled in before the rows with missing cells
\* are dropped
CleanTableFillFirst(t, dn, fn, dd, text) ==
  LET c0 == t
      c1 == IF fn THEN FillNa(c0, FillValue) ELSE c0
      c2 == IF dn THEN DropNa(c1) ELSE c1
      c3 == IF dd THEN DropDuplicates(c2) ELSE c2
  IN RenameStep(c3, text)

\* lines 113-132
CleanTable(t, dn, fn, dd, text) ==
  LET c0 == t
      c1 == IF dn THEN DropNa(c0) ELSE c0
      c2 == IF fn THEN FillNa(c1, FillValue) ELSE c1
      c3 == IF dd THEN DropDuplicates(c2) ELSE c2
  IN RenameStep(c3, text)

(***************************************************************************)
(* Export formatter, lines 138-192.                                        *)
(***************************************************************************)
\* lines 167-175: the bullet list under "Actions Taken:"
ActionsTaken(dn, fn, dd, text) ==
  (IF dn THEN << [action |-> "- Dropped rows with nulls", arg |-> <<>>] >> ELSE <<>>)
    \o (IF fn THEN << [action |-> "- Filled missing values with 'N/A'", arg |-> <<>>] >>
        ELSE <<>>)
    \o (IF dd THEN << [action |-> "- Removed duplicate rows", arg |-> <<>>] >> ELSE <<>>)
    \o (IF text # <<>> THEN << [action |-> "- Renamed columns: ", arg |-> text] >>
        ELSE <<>>)

\* variant: the filter of line 55 applied to the report as well
NullSummaryNonZero(null_counts) ==
  SelectIdx(null_counts, LAMBDA j : null_counts[j].count > 0)

\* line 163: null_counts.to_string(), a line per entry of the series
NullSummary(null_counts) == null_counts

\* variant: the number of rows the cleaning removed is printed as the
\* duplicate count
BuildReportRowsRemoved(t, cleaned, null_counts, duplicate_count, dn, fn, dd, text, suggestions) ==
  [original_shape |-> Shape(t),
   cleaned_shape |-> Shape(cleaned),
   null_summary |-> NullSummary(null_counts),
   duplicate_rows_removed |-> Len(t.rows) - Len(cleaned.rows),
   actions |-> ActionsTaken(dn, fn, dd, text),
   suggestions |-> IF suggestions # "" THEN Some(suggestions) ELSE None]

\* lines 151-179: the text blocks written to the document (the timestamp of
\* line 158 left out)
BuildReport(t, cleaned, null_counts, duplicate_count, dn, fn, dd, text, suggestions) ==
  [original_shape |-> Shape(t),
   cleaned_shape |-> Shape(cleaned),
   null_summary |-> NullSummary(null_counts),
   duplicate_rows_removed |-> duplicate_count,
   actions |-> ActionsTaken(dn, fn, dd, text),
   suggestions |-> IF suggestions # "" THEN Some(suggestions) ELSE None]

\* lines 138-192: the two downloads offered.  The CSV button is created
\* before the document is rendered; a rendering failure is caught at line 191.
\* report is the document this run writes to "cleaning_report.pdf" (line
\* 182), download what line 184 reads back from that path.  Every session of
\* the server uses the same path: between is what another session has put
\* there between the two lines (None when nothing came in between), a whole
\* document or one still being written.
ExportStage(cleaned, report, pdf_ok, between) ==
  [csv |-> Some(ToCsv(cleaned)),
   report |-> IF pdf_ok THEN Some(report) ELSE None,
   download |->
     IF ~pdf_ok THEN None
     ELSE IF between = None THEN Some([document |-> report, complete |-> TRUE])
     ELSE between,
   messages |-> IF pdf_ok THEN {} ELSE {"Report generation failed"}]

\* the reports of another session that can reach the shared path: here the
\* one of a run that removed the duplicates of a three-row table
OtherSessionReports ==
  LET t == [columns |-> ColumnNames, rows |-> << <<NaN, "x">>, <<NaN, "x">>, <<NaN, "x">> >>]
  IN {BuildReport(t, CleanTable(t, FALSE, FALSE, TRUE, <<>>).table, IsNullSum(t),
                  DuplicatedSum(t), FALSE, FALSE, TRUE, <<>>, "")}

\* what can lie at the shared path when line 184 opens it
Between ==
  {None} \cup {Some([document |-> r, complete |-> c]) :
                 r \in OtherSessionReports, c \in BOOLEAN}

(***************************************************************************)
(* One run of the script, lines 20-197.  triggers is the set of buttons    *)
(* that are True in the run (the ifs of lines 72 and 112 are independent), *)
(* api the state of the call of line 89 (Pending while the script waits in *)
(* it, Raised, or Answer(text)), pdf_ok whether the document renders,      *)
(* between the shared report file.                                         *)
(***************************************************************************)
\* lines 20-24
Holders ==
  [gpt_suggestions |-> "", null_counts |-> <<>>, duplicate_count |-> 0,
   cleaned_df |-> None, df |-> EmptyDataFrame,
   messages |-> {}, attempts |-> <<>>, csv |-> None, report |-> None,
   download |-> None, widgets |-> FALSE, waiting |-> FALSE]

\* line 89: the call has not returned / has raised / has returned text
Pending == <<"pending">>
Raised == <<"raised">>
Answer(text) == <<"answer", text>>

\* lines 72-99: the holder gpt_suggestions after the phase
Suggest(triggers, api) ==
  IF "suggest" \in triggers /\ api[1] = "answer" THEN api[2] ELSE ""

\* lines 44 and 135: st.dataframe converts the table for the browser, which
\* raises ValueError when two columns have the same name
DataframeRenders(t) ==
  \A i, j \in 1..Len(t.columns) : t.columns[i] = t.columns[j] => i = j

\* lines 112-192.  Line 135 is inside the try block of line 27 only: when it
\* raises, the handler of line 194 reports a load error and lines 138-192
\* (both downloads) are not reached.
CleanAndExport(h, dn, fn, dd, text, pdf_ok, between) ==
  LET c == CleanTable(h.df, dn, fn, dd, text)
      rep == BuildReport(h.df, c.table, h.null_counts, h.duplicate_count,
                         dn, fn, dd, text, h.gpt_suggestions)
      e == ExportStage(c.table, rep, pdf_ok, between)
      shown == h.messages \cup {"Cleaning complete"}
                 \cup (IF c.warned THEN {"Column rename failed"} ELSE {})
  IN IF ~DataframeRenders(c.table)
       THEN [h EXCEPT !.cleaned_df = Some(c.table),
                      !.messages = shown \cup {"Error loading file"}]
       ELSE [h EXCEPT !.cleaned_df = Some(c.table),
                      !.csv = e.csv,
                      !.report = e.report,
                      !.download = e.download,
                      !.messages = shown \cup e.messages]

Run(file, dn, fn, dd, text, triggers, api, pdf_ok, between) ==
  IF file = None THEN [Holders EXCEPT !.messages = {"Please upload"}]
  ELSE
    LET load == LoadFile(file[1])
    IN IF ~load.ok
         THEN [Holders EXCEPT !.messages = {"Error loading file"},
                              !.attempts = load.attempts]
         ELSE
           LET atCall == "suggest" \in triggers /\ api = Pending
               h1 == [Holders EXCEPT
                        !.df = load.df,
                        !.attempts = load.attempts,
                        !.null_counts = IsNullSum(load.df),
                        !.duplicate_count = DuplicatedSum(load.df),
                        !.gpt_suggestions = Suggest(triggers, api),
                        !.widgets = ~atCall,
                        !.waiting = atCall,
                        !.messages =
                           {"File uploaded successfully"}
                             \cup (IF EmptyCols(load.df) # <<>> THEN {"Empty Columns"}
                                   ELSE {"No completely empty columns"})
                             \cup (IF "suggest" \in triggers /\ api # Pending
                                     THEN IF api = Raised THEN {"OpenAI error"}
                                          ELSE {"AI Suggestions Ready"}
                                     ELSE {})]
           IN IF "apply" \in triggers /\ ~atCall
                THEN CleanAndExport(h1, dn, fn, dd, text, pdf_ok, between)
                ELSE h1

(***************************************************************************)
(* State.  The first five variables are the widget values; they survive a  *)
(* re-run (the session).  page is what the current run has produced: the   *)
(* holders of lines 20-24 and what it has put on the page, page.waiting    *)
(* while the script thread is inside the call of line 89.  clicked is the  *)
(* set of buttons True in that run.  stale is the set of download buttons  *)
(* that earlier runs left on the page and the waiting run has not yet      *)
(* replaced.  Every widget event starts a new run at once; a run that is   *)
(* still waiting is abandoned and what its call returns is never shown.    *)
(***************************************************************************)
VARIABLES uploaded_file, drop_nulls, fill_nulls, drop_dupes, rename_columns,
          page, clicked, stale

vars == <<uploaded_file, drop_nulls, fill_nulls, drop_dupes, rename_columns,
          page, clicked, stale>>

\* texts typed or pasted into the rename field
RenameTexts ==
  { <<>>,
    <<"\t", "a", " ", ":", "c", ",", "b", ":", " ", "d", "\n">>,
    <<"a", ":", "c", ",", "z", ":", "w">>,
    <<"a", ":", "b">>,
    <<"a", "-", "c">>,
    <<"a", ":", "c", ",", "b", "-", "d">>,
    <<"a", ":", "c", ",", ":", "d">> }

\* outcomes of the call of line 89
Answers == {Raised, Answer("Trim the names")}

\* outcomes of lines 151-184: the document fails to render, or it renders
\* and the shared path holds what `between` says when line 184 opens it
ExportInputs == {<<FALSE, None>>} \cup {<<TRUE, b>> : b \in Between}

\* a run that does not reach line 112
NoExport == {<<TRUE, None>>}

\* the download buttons on the page
DownloadButtons ==
  stale \cup (IF page.csv # None THEN {"csv"} ELSE {})
        \cup (IF page.download # None THEN {"report"} ELSE {})

\* a run of the script.  A run that finishes keeps the values of the widgets
\* of lines 104-110 only if it rendered them and replaces the whole page; a
\* run that waits at line 89 has dropped nothing yet and everything below
\* the button of line 72 is still what the runs before left there.
StartRun(file, dn, fn, dd, text, triggers, api, pdf_ok, between) ==
  /\ page' = Run(file, dn, fn, dd, text, triggers, api, pdf_ok, between)
  /\ uploaded_file' = file
  /\ drop_nulls' = ((page'.widgets \/ page'.waiting) /\ dn)
  /\ fill_nulls' = ((page'.widgets \/ page'.waiting) /\ fn)
  /\ drop_dupes' = ((page'.widgets \/ page'.waiting) /\ dd)
  /\ rename_columns' = (IF page'.widgets \/ page'.waiting THEN text ELSE <<>>)
  /\ clicked' = triggers
  /\ stale' = (IF page'.waiting THEN DownloadButtons ELSE {})

\* the widgets of lines 104-110 can be used: the run rendered them, or the
\* run waits at line 89 and the page still has those of the run before
WidgetsOnScreen == page.widgets \/ page.waiting

\* the first run, nothing uploaded
Init ==
  /\ uploaded_file = None
  /\ drop_nulls = FALSE
  /\ fill_nulls = FALSE
  /\ drop_dupes = FALSE
  /\ rename_columns = <<>>
  /\ page = Run(None, FALSE, FALSE, FALSE, <<>>, {}, Pending, TRUE, None)
  /\ clicked = {}
  /\ stale = {}

\* line 17: a file is chosen in the uploader, empty or not
Upload ==
  /\ \E f \in Files :
       StartRun(Some(f), drop_nulls, fill_nulls, drop_dupes, rename_columns,
                {}, Pending, TRUE, None)

\* line 17: the file is removed from the uploader
RemoveFile ==
  /\ uploaded_file # None
  /\ StartRun(None, drop_nulls, fill_nulls, drop_dupes, rename_columns,
              {}, Pending, TRUE, None)

\* line 104
ToggleDropNulls ==
  /\ WidgetsOnScreen
  /\ StartRun(uploaded_file, ~drop_nulls, fill_nulls, drop_dupes, rename_columns,
              {}, Pending, TRUE, None)

\* line 105
ToggleFillNulls ==
  /\ WidgetsOnScreen
  /\ StartRun(uploaded_file, drop_nulls, ~fill_nulls, drop_dupes, rename_columns,
              {}, Pending, TRUE, None)

\* line 106
ToggleDropDupes ==
  /\ WidgetsOnScreen
  /\ StartRun(uploaded_file, drop_nulls, fill_nulls, ~drop_dupes, rename_columns,
              {}, Pending, TRUE, None)

\* lines 107-110
EditRename ==
  /\ WidgetsOnScreen
  /\ \E text \in RenameTexts \ {rename_columns} :
       StartRun(uploaded_file, drop_nulls, fill_nulls, drop_dupes, text,
                {}, Pending, TRUE, None)

\* lines 72-89: the button is clicked; the run reaches the call of line 89
\* and waits there, lines 96-192 not yet run
ClickSuggest ==
  /\ WidgetsOnScreen
  /\ StartRun(uploaded_file, drop_nulls, fill_nulls, drop_dupes, rename_columns,
              {"suggest"}, Pending, TRUE, None)

\* lines 89-192: the call returns or raises and the waiting run goes on to
\* its end
SuggestReturns ==
  /\ page.waiting
  /\ \E api \in Answers :
       \E x \in (IF "apply" \in clicked THEN ExportInputs ELSE NoExport) :
         StartRun(uploaded_file, drop_nulls, fill_nulls, drop_dupes,
                  rename_columns, clicked, api, x[1], x[2])

\* line 112: the button is clicked; the run goes to its end
ClickApply ==
  /\ WidgetsOnScreen
  /\ \E x \in ExportInputs :
       StartRun(uploaded_file, drop_nulls, fill_nulls, drop_dupes, rename_columns,
                {"apply"}, Pending, x[1], x[2])

\* lines 142-147: a click on the CSV download button, of this run or left
\* on the page, re-runs the script with no button True
DownloadCsv ==
  /\ "csv" \in DownloadButtons
  /\ StartRun(uploaded_file, drop_nulls, fill_nulls, drop_dupes, rename_columns,
              {}, Pending, TRUE, None)

\* lines 185-190: likewise for the report download button
DownloadReport ==
  /\ "report" \in DownloadButtons
  /\ StartRun(uploaded_file, drop_nulls, fill_nulls, drop_dupes, rename_columns,
              {}, Pending, TRUE, None)

Next ==
  \/ Upload
  \/ RemoveFile
  \/ ToggleDropNulls
  \/ ToggleFillNulls
  \/ ToggleDropDupes
  \/ EditRename
  \/ ClickSuggest
  \/ SuggestReturns
  \/ ClickApply
  \/ DownloadCsv
  \/ DownloadReport

Spec == Init /\ [][Next]_vars

(***************************************************************************)
(* Cleaning specification: the script right after a delimited-text file    *)
(* with a larger table was loaded; the user ticks the three checkboxes and *)
(* applies the cleaning.                                                   *)
(***************************************************************************)
InitPipe ==
  /\ uploaded_file \in {Some(f) : f \in PipeFiles}
  /\ drop_nulls = FALSE
  /\ fill_nulls = FALSE
  /\ drop_dupes = FALSE
  /\ rename_columns = <<>>
  /\ page = Run(uploaded_file, FALSE, FALSE, FALSE, <<>>, {}, Pending, TRUE, None)
  /\ clicked = {}
  /\ stale = {}

NextPipe ==
  \/ ToggleDropNulls
  \/ ToggleFillNulls
  \/ ToggleDropDupes
  \/ ClickApply

SpecPipe == InitPipe /\ [][NextPipe]_vars

(***************************************************************************)
(* Vocabulary of the claims.                                               *)
(***************************************************************************)
\* the run finished with "Apply Cleaning" True in it, on a loaded table
Applied == "apply" \in clicked /\ page.widgets

\* the table in the uploaded file
Loaded == uploaded_file[1].table

Cleaned == page.cleaned_df[1]

\* the document the run wrote at line 182 (what the download button then
\* offers is page.download, read back from the path all sessions share)
Report == page.report[1]

Elems(s) == {s[i] : i \in 1..Len(s)}

RECURSIVE WithoutNullRows(_)
WithoutNullRows(rows) ==
  IF rows = <<>> THEN <<>>
  ELSE IF NaN \in Elems(Head(rows)) THEN WithoutNullRows(Tail(rows))
  ELSE <<Head(rows)>> \o WithoutNullRows(Tail(rows))

RECURSIVE WithPlaceholder(_)
WithPlaceholder(rows) ==
  IF rows = <<>> THEN <<>>
  ELSE << [j \in DOMAIN Head(rows) |->
             IF Head(rows)[j] = NaN THEN "N/A" ELSE Head(rows)[j]] >>
         \o WithPlaceholder(Tail(rows))

RECURSIVE FirstOccurrences(_, _)
FirstOccurrences(rows, seen) ==
  IF rows = <<>> THEN <<>>
  ELSE IF Head(rows) \in seen THEN FirstOccurrences(Tail(rows), seen)
  ELSE <<Head(rows)>> \o FirstOccurrences(Tail(rows), seen \cup {Head(rows)})

\* the rows the four steps must produce, in the fixed order
ExpectedRows(rows, dn, fn, dd) ==
  LET r1 == IF dn THEN WithoutNullRows(rows) ELSE rows
      r2 == IF fn THEN WithPlaceholder(r1) ELSE r1
  IN IF dd THEN FirstOccurrences(r2, {}) ELSE r2

\* a is b with some elements left out, the others in their order
RECURSIVE IsSubsequence(_, _)
IsSubsequence(a, b) ==
  IF a = <<>> THEN TRUE
  ELSE IF b = <<>> THEN FALSE
  ELSE IF Head(a) = Head(b) THEN IsSubsequence(Tail(a), Tail(b))
  ELSE IsSubsequence(a, Tail(b))

\* the pairs of a rename text, and their old and new names
Pairs(text) == Split(text, ",")
HasColon(pair) == \E i \in 1..Len(pair) : pair[i] = ":"
OldName(pair) == Strip(Split(pair, ":")[1])
NewName(pair) == Strip(Split(pair, ":")[2])
NoColonPair(text) == \E i \in 1..Len(Pairs(text)) : ~HasColon(Pairs(text)[i])
EmptyOldPair(text) ==
  \E i \in 1..Len(Pairs(text)) : OldName(Pairs(text)[i]) = <<>>
Malformed(text) == NoColonPair(text) \/ EmptyOldPair(text)
OldNames(text) == {OldName(Pairs(text)[i]) : i \in 1..Len(Pairs(text))}
\* the new name the text gives to a column name (the last pair that names it)
NewNameOf(text, name) ==
  LET is == {i \in 1..Len(Pairs(text)) : OldName(Pairs(text)[i]) = name}
  IN NewName(Pairs(text)[CHOOSE i \in is : \A k \in is : k <= i])

\* the column names the rename step must produce: unchanged when the text is
\* empty or has a pair without a colon, otherwise as the pairs say
ExpectedColumns(columns, text) ==
  IF text = <<>> \/ NoColonPair(text) THEN columns
  ELSE [j \in 1..Len(columns) |->
          IF columns[j] \in OldNames(text) THEN NewNameOf(text, columns[j])
          ELSE columns[j]]

RenameWarned == "Column rename failed" \in page.messages

NullCellCount(t) ==
  Cardinality({<<i, j>> \in (1..Len(t.rows)) \X (1..Len(t.columns)) :
                 t.rows[i][j] = NaN})

(***************************************************************************)
(* C1.  The table produced by "Apply Cleaning" is the loaded table after   *)
(* drop-nulls, fill-nulls with "N/A", drop-duplicates keeping the first    *)
(* occurrence, and rename, in that order, each step run only when          *)
(* selected, on the output of the step before; the loaded table itself is  *)
(* unchanged.                                                              *)
(***************************************************************************)
C1_PipelineOrder ==
  Applied =>
    /\ page.df = Loaded
    /\ Cleaned.rows = ExpectedRows(Loaded.rows, drop_nulls, fill_nulls, drop_dupes)
    /\ Cleaned.columns = ExpectedColumns(Loaded.columns, rename_columns)

C1_Witness ==
  /\ Applied
  /\ drop_nulls /\ fill_nulls /\ drop_dupes /\ rename_columns # <<>>
  /\ Len(Cleaned.rows) = 1 /\ Len(Loaded.rows) = 2
  /\ NullCellCount(Loaded) = 1
  /\ Cleaned.columns # Loaded.columns

(***************************************************************************)
(* C2 as claimed.  If any pair of the rename text is malformed (no colon,  *)
(* or an empty old name), no column is renamed, a warning is shown, and    *)
(* the preview and the exports still happen.                               *)
(***************************************************************************)
C2_Claimed ==
  (Applied /\ rename_columns # <<>> /\ Malformed(rename_columns)) =>
    /\ Cleaned.columns = Loaded.columns
    /\ RenameWarned
    /\ page.csv # None

(***************************************************************************)
(* C2 amended.  If any pair of the rename text has no colon, no column is  *)
(* renamed, a warning is shown, and the preview and the exports still      *)
(* happen; a text whose pairs all have a colon raises no warning, an empty *)
(* old name included.                                                      *)
(***************************************************************************)
C2_NoColonSkipsRename ==
  (Applied /\ rename_columns # <<>>) =>
    /\ NoColonPair(rename_columns) =>
         /\ Cleaned.columns = Loaded.columns
         /\ RenameWarned
         /\ page.csv = Some(ToCsv(Cleaned))
         /\ page.report # None \/ "Report generation failed" \in page.messages
    /\ ~NoColonPair(rename_columns) => ~RenameWarned

C2_Witness ==
  /\ Applied
  /\ NoColonPair(rename_columns)
  /\ \E i \in 1..Len(Pairs(rename_columns)) :
       /\ HasColon(Pairs(rename_columns)[i])
       /\ OldName(Pairs(rename_columns)[i]) \in Elems(Loaded.columns)
  /\ RenameWarned
  /\ page.csv # None

(***************************************************************************)
(* C3 as claimed.  If the rename text is well-formed but an old name in it *)
(* is not a column of the table, the rename step is skipped with a         *)
(* warning and no column is renamed.                                       *)
(***************************************************************************)
C3_Claimed ==
  (/\ Applied /\ rename_columns # <<>> /\ ~Malformed(rename_columns)
   /\ \E k \in OldNames(rename_columns) : k \notin Elems(Loaded.columns)) =>
    /\ Cleaned.columns = Loaded.columns
    /\ RenameWarned

(***************************************************************************)
(* C3 amended.  If the rename text is well-formed, old names that are not  *)
(* columns of the table are ignored without a warning: every column whose  *)
(* name is an old name of the text gets its new name, every other column   *)
(* keeps its name.                                                         *)
(***************************************************************************)
C3_UnmatchedIgnored ==
  (Applied /\ rename_columns # <<>> /\ ~Malformed(rename_columns)) =>
    /\ ~RenameWarned
    /\ Len(Cleaned.columns) = Len(Loaded.columns)
    /\ \A j \in 1..Len(Loaded.columns) :
         Cleaned.columns[j] =
           IF Loaded.columns[j] \in OldNames(rename_columns)
             THEN NewNameOf(rename_columns, Loaded.columns[j])
             ELSE Loaded.columns[j]

C3_Witness ==
  /\ Applied /\ rename_columns # <<>> /\ ~Malformed(rename_columns)
  /\ \E k \in OldNames(rename_columns) : k \notin Elems(Loaded.columns)
  /\ Cleaned.columns # Loaded.columns

(***************************************************************************)
(* C4 as claimed.  Whenever a run with "Apply Cleaning" clicked finishes   *)
(* on a loaded table the CSV of the cleaned table is offered, whether or   *)
(* not a suggestion request failed, the rename failed or the report fails  *)
(* to render, and no load error is shown.                                  *)
(***************************************************************************)
C4_Claimed ==
  Applied =>
    /\ page.csv = Some(ToCsv(Cleaned))
    /\ "Error loading file" \notin page.messages

\* the run in which the claim fails: the rename gave two columns one name,
\* the preview of line 135 raised, no download is offered
RenamedToSameName ==
  /\ Applied /\ ~RenameWarned
  /\ ~DataframeRenders(Cleaned)
  /\ "Cleaning complete" \in page.messages
  /\ "Error loading file" \in page.messages
  /\ page.csv = None /\ page.report = None /\ page.download = None

\* in every other run with the button clicked the CSV is offered
OfferedWhenPreviewed ==
  (Applied /\ DataframeRenders(Cleaned)) =>
    /\ page.csv = Some(ToCsv(Cleaned))
    /\ "Error loading file" \notin page.messages

(***************************************************************************)
(* C5 as claimed.  After a suggestion request has succeeded, a click on    *)
(* "Apply Cleaning" on the same loaded table produces a report that ends   *)
(* with the suggestion text.                                               *)
(***************************************************************************)
C5_Claimed ==
  [][(/\ "suggest" \in clicked /\ page.gpt_suggestions # ""
      /\ "apply" \in clicked' /\ uploaded_file' = uploaded_file
      /\ page'.report # None)
       => page'.report[1].suggestions = Some(page.gpt_suggestions)]_vars

(***************************************************************************)
(* C6 as claimed.  A .csv file is parsed as UTF-8 and, only after a decode *)
(* error, once more as ISO-8859-1; the load succeeds if the file parses    *)
(* under either encoding; a failed load shows an error and performs no     *)
(* profiling, cleaning or export.                                          *)
(***************************************************************************)
FileLoaded == "File uploaded successfully" \in page.messages

ParsesAs(f, encoding) == ReadCsv(f, FALSE, encoding).status = "ok"

C6_Claimed ==
  (uploaded_file # None /\ uploaded_file[1].ext = ".csv") =>
    /\ page.attempts \in {<<"utf-8">>, <<"utf-8", "ISO-8859-1">>}
    /\ Len(page.attempts) = 2 <=>
         ReadCsv(uploaded_file[1], FALSE, "utf-8").status = "UnicodeDecodeError"
    /\ (ParsesAs(uploaded_file[1], "utf-8") \/ ParsesAs(uploaded_file[1], "ISO-8859-1"))
         => (FileLoaded /\ page.df = Loaded)
    /\ ~FileLoaded =>
         /\ "Error loading file" \in page.messages
         /\ page.null_counts = <<>> /\ page.cleaned_df = None
         /\ page.csv = None /\ page.report = None /\ page.download = None

(***************************************************************************)
(* C7.  The "Duplicate Rows Removed" number of the report is the duplicate *)
(* count of the table before cleaning: its row count minus its number of   *)
(* distinct rows, whatever the cleaning selection.                         *)
(***************************************************************************)
C7_DuplicateCount ==
  (Applied /\ page.report # None) =>
    /\ Report.duplicate_rows_removed = page.duplicate_count
    /\ Report.duplicate_rows_removed =
         Len(Loaded.rows) - Cardinality(Elems(Loaded.rows))

C7_Witness ==
  /\ Applied /\ page.report # None
  /\ drop_nulls /\ ~drop_dupes
  /\ Report.duplicate_rows_removed = 2
  /\ Len(Cleaned.rows) = Len(Loaded.rows) - 1

(***************************************************************************)
(* C8.  For a table with exactly one missing cell and exactly one row that *)
(* repeats an earlier row, cleaning with drop-nulls and drop-duplicates    *)
(* (no fill, no rename) leaves exactly two rows fewer, in their original   *)
(* relative order.                                                         *)
(***************************************************************************)
C8_Case ==
  /\ Applied
  /\ drop_nulls /\ drop_dupes /\ ~fill_nulls /\ rename_columns = <<>>
  /\ NullCellCount(Loaded) = 1
  /\ Len(Loaded.rows) - Cardinality(Elems(Loaded.rows)) = 1

C8_TwoRowsFewer ==
  C8_Case =>
    /\ Len(Cleaned.rows) = Len(Loaded.rows) - 2
    /\ IsSubsequence(Cleaned.rows, Loaded.rows)
    /\ Cleaned.columns = Loaded.columns

C8_Witness ==
  /\ C8_Case
  /\ Len(Loaded.rows) = 5
  /\ Len(Cleaned.rows) = 3

(***************************************************************************)
(* C9 as claimed.  The "Actions Taken" list has, in the order drop-nulls,  *)
(* fill-nulls, drop-duplicates, rename, an entry for an action exactly     *)
(* when its step was executed in the run; a rename skipped with a warning  *)
(* is not listed.                                                          *)
(***************************************************************************)
C9_Claimed ==
  (Applied /\ page.report # None) =>
    Report.actions =
      ActionsTaken(drop_nulls, fill_nulls, drop_dupes,
                   IF RenameWarned THEN <<>> ELSE rename_columns)

(***************************************************************************)
(* C10 as claimed.  The null-value summary of the report has exactly one   *)
(* line for each column of the loaded table with at least one missing      *)
(* value, with the count before cleaning, and no line for a column         *)
(* without missing values.                                                 *)
(***************************************************************************)
MissingIn(t, j) == Len(SelectSeq(t.rows, LAMBDA row : row[j] = NaN))

C10_Claimed ==
  (Applied /\ page.report # None) =>
    Report.null_summary =
      SelectIdx([j \in 1..Len(Loaded.columns) |->
                   [column |-> Loaded.columns[j], count |-> MissingIn(Loaded, j)]],
                LAMBDA j : MissingIn(Loaded, j) > 0)

(***************************************************************************)
(* C10 amended.  The null-value summary of the report has exactly one line *)
(* for each column of the loaded table, in column order, with the column's *)
(* name and its missing-value count before cleaning; a column without      *)
(* missing values has a line with count 0.                                 *)
(***************************************************************************)
C10_EveryColumnListed ==
  (Applied /\ page.report # None) =>
    /\ Len(Report.null_summary) = Len(Loaded.columns)
    /\ \A j \in 1..Len(Loaded.columns) :
         /\ Report.null_summary[j].column = Loaded.columns[j]
         /\ Report.null_summary[j].count = MissingIn(Loaded, j)

C10_Witness ==
  /\ Applied /\ page.report # None
  /\ drop_nulls /\ rename_columns # <<>> /\ ~RenameWarned
  /\ \E j \in 1..Len(Loaded.columns) : MissingIn(Loaded, j) = 0
  /\ \E j \in 1..Len(Loaded.columns) : MissingIn(Loaded, j) = 2
  /\ page.download = Some([document |-> Report, complete |-> TRUE])
  /\ Cleaned.columns # Loaded.columns

====
